---------------------------- MODULE Spec2Model ----------------------------
(***************************************************************************)
(* kube-soomkiller: the node-local detection and eviction loop.            *)
(*                                                                         *)
(* The module models the controller of internal/controller (Run,           *)
(* reconcile, findAndKillOverThreshold, scanCgroupsForSwap, terminatePod), *)
(* the cgroup scanner of internal/cgroup (FindPodCgroups,                  *)
(* GetContainerMetrics, ExtractQoS, ExtractPodUID), the node-scoped pod    *)
(* informer and the part of main() that orders their start.                *)
(*                                                                         *)
(* Strings that the code inspects are sequences of tokens: a cgroup path   *)
(* is a sequence of components, a component a sequence of tokens such as   *)
(* "kubepods", "-burstable", "-pod", "_", ".slice".  Byte counts are       *)
(* counted in units of 2^50 bytes, so that the value 1<<62 which           *)
(* readMemoryMax returns for the literal "max" is 4096.  memory.max values *)
(* are powers of two, for which the float64 expression                     *)
(* swap/max*100 is exact; SwapPercent is held as that value times          *)
(* PctScale (a fixed-point integer).                                       *)
(***************************************************************************)
EXTENDS Integers, Sequences, FiniteSets, TLC

VARIABLES
    config,              \* controller.Config as built by main()
    protectedNamespaces, \* Controller.protectedNamespaces (set of the map's keys)
    cgroupRoot,          \* the paths that exist below --cgroup-root, of those main() looks for
    validateErr,         \* history: what ValidateEnvironment returned to main()
    kubepodsDir,         \* kubepods.slice below the cgroup root: "dir", "missing" or "noperm"
    call,                \* a function of the program called on its own: name, argument, result
    fs,                  \* cgroup filesystem below kubepods.slice
    apiPods,             \* orchestrator: pod objects by namespace/name
    cache,               \* PodInformer store: pod objects by namespace/name
    synced,              \* informer.HasSynced()
    cancelled,           \* ctx.Done() is closed
    tickerC,             \* a tick is waiting in ticker.C (a channel of capacity 1)
    pc,                  \* position of the main goroutine
    candidates,          \* findAndKillOverThreshold: candidates
    overThreshold,       \* findAndKillOverThreshold: overThreshold
    resolved,            \* findAndKillOverThreshold: resolved
    idx,                 \* index of the loop in progress (1-based)
    killed,              \* findAndKillOverThreshold: killed
    inflight,            \* terminatePod: the delete call that has not returned yet
    reconcileErr,        \* the error reconcile is returning to Run ("none": not returning)
    scanReads,           \* history: container readings of this tick's scan
    scanLog,             \* history: what this tick's scan got from the scanner
    lookups,             \* history: GetPodByUID results of this tick's resolve loop
    requests,            \* history: events, deletes and dry-run logs of this tick
    returns,             \* history: terminatePod return values of this tick
    cacheReads,          \* history: the informer's store when this tick began
    termLookups,         \* history: GetPodByUID results of this tick's terminatePod calls
    podsKilledTotal,     \* metrics.PodsKilledTotal
    firstTie,            \* history: the first tick that deleted two pods of equal SwapPercent
    deletedBefore,       \* history: UIDs of the pods a delete of an earlier tick succeeded for
    syncResult,          \* history: what WaitForCacheSync returned to main()
    startupScans,        \* history: has checkCgroupsAtStartup run
    lastFailed           \* history: UIDs whose delete failed in the previous tick

vars == <<config, protectedNamespaces, cgroupRoot, validateErr, kubepodsDir, call, fs, apiPods, cache, synced, cancelled, tickerC, pc,
          candidates, overThreshold, resolved, idx, killed, inflight, reconcileErr,
          scanReads, scanLog, lookups, requests, returns, cacheReads, termLookups,
          podsKilledTotal, firstTie, deletedBefore, syncResult, startupScans, lastFailed>>

-----------------------------------------------------------------------------
(* Bounds of the model *)

\* memory.swap.current takes the values 0..MaxSwap
MaxSwap == 2

\* 1 << 62, in units of 2^50 bytes
MemoryMaxUnlimited == 4096

\* SwapPercent is stored as percent * PctScale; every memory.max of the model
\* divides MemoryMaxUnlimited, so the stored value is exact
PctScale == MemoryMaxUnlimited

-----------------------------------------------------------------------------
(* Generic helpers *)

RECURSIVE Perms(_)
Perms(S) ==
    IF S = {} THEN {<<>>}
    ELSE UNION {{<<x>> \o p : p \in Perms(S \ {x})} : x \in S}

Range(s) == {s[i] : i \in 1..Len(s)}

-----------------------------------------------------------------------------
(* Cgroup paths *)

\* canonical pod UIDs, as the orchestrator writes them
UidA == <<"aaaa1111", "-", "2222">>
UidB == <<"bbbb1111", "-", "2222">>
UidG == <<"cccc1111", "-", "2222">>
UidE == <<"dddd1111", "-", "2222">>

\* the systemd cgroup driver writes a UID with underscores
CgroupUID(uid) == [i \in 1..Len(uid) |-> IF uid[i] = "-" THEN "_" ELSE uid[i]]

QosToken(qos) ==
    CASE qos = "burstable" -> <<"-burstable">>
      [] qos = "besteffort" -> <<"-besteffort">>
      [] OTHER -> <<>>

\* kubepods.slice/[kubepods-<qos>.slice/]kubepods[-<qos>]-pod<uid>.slice/<runtime><id>.scope
CgroupPath(qos, uid, runtime, id) ==
    <<  <<"kubepods", ".slice">> >>
    \o (IF qos = "guaranteed" THEN <<>>
        ELSE << <<"kubepods">> \o QosToken(qos) \o <<".slice">> >>)
    \o << <<"kubepods">> \o QosToken(qos) \o <<"-pod">> \o CgroupUID(uid) \o <<".slice">>,
          <<runtime, id, ".scope">> >>

\* the .scope directories the filesystem of the model may hold
Dirs == {"a1", "a2", "a3", "b1", "g1", "e1", "x1"}

\* what each directory is: the QoS class and UID of its pod, its runtime prefix
DirTable ==
    [d \in Dirs |->
        CASE d = "a1" -> [qos |-> "burstable", uid |-> UidA, runtime |-> "cri-containerd-", id |-> "abc"]
          [] d = "a2" -> [qos |-> "burstable", uid |-> UidA, runtime |-> "crio-", id |-> "def"]
          [] d = "a3" -> [qos |-> "burstable", uid |-> UidA, runtime |-> "cri-containerd-", id |-> "efg"]
          [] d = "b1" -> [qos |-> "burstable", uid |-> UidB, runtime |-> "cri-containerd-", id |-> "bcd"]
          [] d = "g1" -> [qos |-> "guaranteed", uid |-> UidG, runtime |-> "cri-containerd-", id |-> "ghi"]
          [] d = "e1" -> [qos |-> "besteffort", uid |-> UidE, runtime |-> "crio-", id |-> "jkl"]
          [] d = "x1" -> [qos |-> "burstable", uid |-> UidB, runtime |-> "docker-", id |-> "mno"]]

PathTable ==
    [d \in Dirs |-> CgroupPath(DirTable[d].qos, DirTable[d].uid,
                               DirTable[d].runtime, DirTable[d].id)]

PathOf(d) == PathTable[d]

DirOf(path) == CHOOSE d \in Dirs : PathOf(d) = path

\* strings.Contains(path, "kubepods" + tok)
ContainsKubepods(path, tok) ==
    \E i \in 1..Len(path) : \E j \in 1..(Len(path[i]) - 1) :
        path[i][j] = "kubepods" /\ path[i][j + 1] = tok

ExtractQoS_NoFilter(cgroupPath) == "burstable"

ExtractQoS(cgroupPath) ==
    IF ContainsKubepods(cgroupPath, "-burstable") THEN "burstable"
    ELSE IF ContainsKubepods(cgroupPath, "-besteffort") THEN "besteffort"
    ELSE IF ContainsKubepods(cgroupPath, ".slice") THEN "guaranteed"
    ELSE ""

\* strings.LastIndex(part, "-pod"); 0 when absent
LastIndexPod(part) ==
    LET hits == {i \in 1..Len(part) : part[i] = "-pod"}
    IN  IF hits = {} THEN 0 ELSE CHOOSE i \in hits : \A j \in hits : j <= i

\* a conversion that leaves the underscores in
ReplaceUnderscores_Keep(uid) == uid

\* strings.ReplaceAll(uid, "_", "-")
ReplaceUnderscores(uid) == [i \in 1..Len(uid) |-> IF uid[i] = "_" THEN "-" ELSE uid[i]]

RECURSIVE ExtractPodUIDFrom(_)
ExtractPodUIDFrom(parts) ==
    IF parts = <<>> THEN <<>>
    ELSE LET part == Head(parts)
             trimmed == SubSeq(part, 1, Len(part) - 1)
             podIdx == LastIndexPod(trimmed)
             uid == SubSeq(trimmed, podIdx + 1, Len(trimmed))
         IN  IF part = <<>> \/ part[Len(part)] # ".slice" THEN ExtractPodUIDFrom(Tail(parts))
             ELSE IF podIdx = 0 THEN ExtractPodUIDFrom(Tail(parts))
             ELSE IF uid = <<>> THEN ExtractPodUIDFrom(Tail(parts))
             ELSE ReplaceUnderscores(uid)

\* the empty sequence is the empty string
ExtractPodUID(cgroupPath) == ExtractPodUIDFrom(cgroupPath)

-----------------------------------------------------------------------------
(* Cgroup files *)

NoDir == [kind |-> "nodir"]

\* a directory entry for which filepath.Walk hands an error to its callback
WalkErr == [kind |-> "walkerr"]

IntFile(n) == [kind |-> "int", val |-> n]
MaxFile == [kind |-> "max", val |-> 0]
MissingFile == [kind |-> "missing", val |-> 0]
\* a file that can be read and whose contents are neither a number nor max
GarbageFile == [kind |-> "garbage", val |-> 0]

\* a container cgroup directory: the four files GetContainerMetrics reads
Container(swap, max) ==
    [kind |-> "dir", swapCurrent |-> IntFile(swap), memoryCurrent |-> IntFile(1),
     memoryMax |-> max, memoryPressure |-> IntFile(0)]

\* a directory one of whose files cannot be read
Unreadable ==
    [kind |-> "dir", swapCurrent |-> IntFile(1), memoryCurrent |-> MissingFile,
     memoryMax |-> IntFile(4), memoryPressure |-> IntFile(0)]

readInt64File(file) ==
    IF file.kind = "int" THEN [err |-> FALSE, val |-> file.val]
    ELSE [err |-> TRUE, val |-> 0]

readMemoryMax(file) ==
    IF file.kind = "missing" THEN [err |-> TRUE, val |-> 0]
    ELSE IF file.kind = "max" THEN [err |-> FALSE, val |-> MemoryMaxUnlimited]
    ELSE IF file.kind = "int" THEN [err |-> FALSE, val |-> file.val]
    ELSE [err |-> TRUE, val |-> 0]

readPSI(file) == [err |-> file.kind = "missing"]

\* FindPodCgroups: the error of its os.Stat of kubepods.slice, which it looks
\* at with os.IsNotExist alone
FindPodCgroupsErr(root) == root = "missing"

\* the directories filepath.Walk hands to the callback without an error: when
\* kubepods.slice cannot be listed the callback gets the error, returns nil, and
\* the walk is over
Walked(root, f) == IF root = "dir" THEN f ELSE [d \in Dirs |-> NoDir]

\* a walk that puts every .scope directory into Cgroups
FindPodCgroups_AnyRuntime(f) ==
    [Cgroups |-> {PathOf(d) : d \in {x \in Dirs : f[x].kind = "dir"}},
     Unrecognized |-> {}]

\* the directories below kubepods.slice whose name ends in .scope, split by prefix
FindPodCgroups(f) ==
    LET scopes == {d \in Dirs : f[d].kind = "dir" /\ PathOf(d)[Len(PathOf(d))][3] = ".scope"}
        known(d) == PathOf(d)[Len(PathOf(d))][1] \in {"cri-containerd-", "crio-"}
    IN  [Cgroups |-> {PathOf(d) : d \in {x \in scopes : known(x)}},
         Unrecognized |-> {PathOf(d) : d \in {x \in scopes : ~known(x)}}]

\* a scanner that returns what it has read when memory.current cannot be read
GetContainerMetrics_Partial(f, cgroupPath) ==
    LET dir == f[DirOf(cgroupPath)]
        swapCurrent == readInt64File(dir.swapCurrent)
        memoryMax == readMemoryMax(dir.memoryMax)
        psi == readPSI(dir.memoryPressure)
    IN  IF swapCurrent.err \/ memoryMax.err \/ psi.err
        THEN [err |-> TRUE, SwapCurrent |-> 0, MemoryMax |-> 0]
        ELSE [err |-> FALSE, SwapCurrent |-> swapCurrent.val, MemoryMax |-> memoryMax.val]

GetContainerMetrics(f, cgroupPath) ==
    LET dir == f[DirOf(cgroupPath)]
        swapCurrent == readInt64File(dir.swapCurrent)
        memoryCurrent == readInt64File(dir.memoryCurrent)
        memoryMax == readMemoryMax(dir.memoryMax)
        psi == readPSI(dir.memoryPressure)
    IN  IF swapCurrent.err \/ memoryCurrent.err \/ memoryMax.err \/ psi.err
        THEN [err |-> TRUE, SwapCurrent |-> 0, MemoryMax |-> 0]
        ELSE [err |-> FALSE, SwapCurrent |-> swapCurrent.val, MemoryMax |-> memoryMax.val]

\* the three paths ValidateEnvironment looks for, relative to the cgroup root
CgroupControllers == <<"cgroup.controllers">>
KubepodsSlice == <<"kubepods.slice">>
SwapMax == <<"kubepods.slice", "memory.swap.max">>

\* the cgroup roots of the model: memory.swap.max is there only where kubepods.slice is
CgroupRoots ==
    {r \in SUBSET {CgroupControllers, KubepodsSlice, SwapMax} :
        SwapMax \in r => KubepodsSlice \in r}

\* a node with cgroup v2, the systemd cgroup driver and swap accounting
FullRoot == {CgroupControllers, KubepodsSlice, SwapMax}

\* os.IsNotExist(err) for the err of os.Stat(path)
StatIsNotExist(root, path) == path \notin root

\* Scanner.ValidateEnvironment: the error it returns, by the start of its text
ValidateEnvironment(root) ==
    IF StatIsNotExist(root, CgroupControllers) THEN "cgroup v2 not detected"
    ELSE IF StatIsNotExist(root, KubepodsSlice) THEN "systemd cgroup driver not detected"
    ELSE IF StatIsNotExist(root, SwapMax) THEN "swap not enabled"
    ELSE "nil"

-----------------------------------------------------------------------------
(* The scan: scanCgroupsForSwap *)

\* float64(SwapCurrent) / float64(MemoryMax) * 100, as a multiple of 1/PctScale
SwapPercentOf(m) ==
    IF m.MemoryMax > 0 THEN (m.SwapCurrent * 100 * PctScale) \div m.MemoryMax ELSE 0

\* a scan that keeps the ratio of the container read last
Accumulate_Last(processedPods, uid, swapPercent) ==
    (uid :> [UID |-> uid, Namespace |-> "", Name |-> "", SwapPercent |-> swapPercent])
        @@ processedPods

\* processedPods[uid] after a container of pod uid with swapPercent was read
Accumulate(processedPods, uid, swapPercent) ==
    IF uid \in DOMAIN processedPods
    THEN IF swapPercent > processedPods[uid].SwapPercent
         THEN [processedPods EXCEPT ![uid].SwapPercent = swapPercent]
         ELSE processedPods
    ELSE (uid :> [UID |-> uid, Namespace |-> "", Name |-> "", SwapPercent |-> swapPercent])
         @@ processedPods

RECURSIVE ScanLoop(_, _, _)
\* the loop over cgroupsResult.Cgroups, visited in the order of the sequence paths
ScanLoop(f, paths, processedPods) ==
    IF paths = <<>> THEN processedPods
    ELSE LET cgroupPath == Head(paths)
             qos == ExtractQoS(cgroupPath)
             uid == ExtractPodUID(cgroupPath)
             containerMetrics == GetContainerMetrics(f, cgroupPath)
         IN  IF qos # "burstable" THEN ScanLoop(f, Tail(paths), processedPods)
             ELSE IF uid = <<>> THEN ScanLoop(f, Tail(paths), processedPods)
             ELSE IF containerMetrics.err THEN ScanLoop(f, Tail(paths), processedPods)
             ELSE IF containerMetrics.SwapCurrent = 0 THEN ScanLoop(f, Tail(paths), processedPods)
             ELSE ScanLoop(f, Tail(paths),
                           Accumulate(processedPods, uid, SwapPercentOf(containerMetrics)))

\* the map processedPods that scanCgroupsForSwap builds when the walk yields
\* the recognized directories in the order walk
scanCgroupsForSwap(f, walk) == ScanLoop(f, walk, <<>>)

\* the directories for which the loop of scanCgroupsForSwap calls
\* GetContainerMetrics, and those of them for which it returned an error
MetricsCalled(paths) ==
    {DirOf(q) : q \in {x \in Range(paths) :
                          ExtractQoS(x) = "burstable" /\ ExtractPodUID(x) # <<>>}}

MetricsFailed(f, paths) ==
    {d \in MetricsCalled(paths) : GetContainerMetrics(f, PathOf(d)).err}

\* the place of a path's second component in the lexical order of the names
\* below kubepods.slice: kubepods-besteffort.slice, kubepods-burstable.slice,
\* kubepods-pod<uid>.slice
TopRank(path) ==
    IF path[2][2] = "-besteffort" THEN 1 ELSE IF path[2][2] = "-burstable" THEN 2 ELSE 3

\* the pod slice a container directory lies in
SliceOf(path) == SubSeq(path, 1, Len(path) - 1)

\* the orders in which one QoS slice's recognized directories may be walked:
\* the containers of one pod slice together
SliceOrders(paths) ==
    {w \in Perms(paths) :
        \A i \in 1..Len(w) : \A j \in i..Len(w) : \A k \in j..Len(w) :
            SliceOf(w[i]) = SliceOf(w[k]) => SliceOf(w[j]) = SliceOf(w[i])}

\* the orders in which filepath.Walk (lexical, depth first) may yield the
\* recognized directories: QoS slices in lexical order, the containers of one
\* pod slice together; pod UIDs and container IDs are arbitrary, so the pods
\* of one QoS class and the containers of one pod come in any order
WalkOrders(f) ==
    LET ranked(r) == {path \in FindPodCgroups(f).Cgroups : TopRank(path) = r}
    IN  {w1 \o w2 \o w3 : w1 \in SliceOrders(ranked(1)),
                           w2 \in SliceOrders(ranked(2)),
                           w3 \in SliceOrders(ranked(3))}

\* the slices a Go map iteration may produce from processedPods
MapToSlices(processedPods) ==
    {[i \in 1..Len(p) |-> processedPods[p[i]]] : p \in Perms(DOMAIN processedPods)}

\* a filter that lets every candidate through
IsOverThreshold_Always(cand, thresholdPercent) == TRUE

\* a filter that compares with >=
IsOverThreshold_AtLeast(cand, thresholdPercent) ==
    cand.SwapPercent >= thresholdPercent * PctScale

\* cand.SwapPercent > c.config.SwapThresholdPercent
IsOverThreshold(cand, thresholdPercent) == cand.SwapPercent > thresholdPercent * PctScale

\* a filter that looks at the first candidate of the slice only
FilterOverThreshold_FirstOnly(cands, thresholdPercent) ==
    IF cands = <<>> THEN <<>>
    ELSE IF IsOverThreshold(Head(cands), thresholdPercent) THEN <<Head(cands)>>
    ELSE <<>>

\* a filter with a cooldown: a pod whose delete failed in the tick before is left out
FilterOverThreshold_Cooldown(cands, thresholdPercent) ==
    SelectSeq(cands, LAMBDA c : IsOverThreshold(c, thresholdPercent) /\ c.UID \notin lastFailed)

RECURSIVE FilterOverThreshold(_, _)
FilterOverThreshold(cands, thresholdPercent) ==
    IF cands = <<>> THEN <<>>
    ELSE IF IsOverThreshold(Head(cands), thresholdPercent)
         THEN <<Head(cands)>> \o FilterOverThreshold(Tail(cands), thresholdPercent)
         ELSE FilterOverThreshold(Tail(cands), thresholdPercent)

-----------------------------------------------------------------------------
(* Pods: the orchestrator's objects and the informer's store *)

NoPod == [kind |-> "nil"]

Pod(uid, namespace, name, deleting) ==
    [kind |-> "pod", UID |-> uid, Namespace |-> namespace, Name |-> name,
     DeletionTimestamp |-> deleting]

\* namespace/name of the pods scheduled to this node
PodKeys == {<<"default", "web-0">>, <<"kube-system", "dns-0">>}

UIDOfKey(k) == IF k = <<"default", "web-0">> THEN UidA ELSE UidB

InitialPods == [k \in PodKeys |-> Pod(UIDOfKey(k), k[1], k[2], FALSE)]

EmptyStore == [k \in PodKeys |-> NoPod]

\* indexer.ByIndex(uidIndex, uid), objs[0]; NoPod is nil
GetPodByUID(store, uid) ==
    LET objs == {k \in PodKeys : store[k] # NoPod /\ store[k].UID = uid}
    IN  IF objs = {} THEN NoPod ELSE store[CHOOSE k \in objs : TRUE]

\* a lookup that asks the orchestrator for the pod
GetPodByUIDRequests_ApiGet(uid) ==
    << [op |-> "get", cand |-> [UID |-> uid, Namespace |-> "", Name |-> ""]] >>

\* the requests to the orchestrator that GetPodByUID makes: none, the pod comes
\* from the indexer of the informer
GetPodByUIDRequests(uid) == <<>>

\* cache.WaitForCacheSync(stopCh, informer.HasSynced): true only once the
\* informer has synced, false only once stopCh is closed
WaitForCacheSync(hasSynced, stopped) ==
    {r \in BOOLEAN : (r /\ hasSynced) \/ (~r /\ stopped)}

\* a main() that logs the error of ValidateEnvironment and goes on
AfterValidate_LogOnly(err) == "main"

\* main(): klog.Fatalf when ValidateEnvironment returned an error; else on to
\* the metrics, the client, the informer and WaitForCacheSync
AfterValidate(err) == IF err # "nil" THEN "fatal_env" ELSE "main"

\* a main() that does not look at what WaitForCacheSync returned
AfterCacheSync_Unchecked(ok) == "startup"

\* main(): klog.Fatal unless WaitForCacheSync returned true, else ctrl.Run
AfterCacheSync(ok) == IF ~ok THEN "fatal" ELSE "startup"

-----------------------------------------------------------------------------
(* Controller *)

\* New(config): the map of protected namespaces, as the set of its keys
New(cfg) == Range(cfg.ProtectedNamespaces)

\* a resolve loop without the check of the protected namespaces
ResolveCandidate_NoProtected(cand, pod, protected) ==
    IF pod = NoPod THEN <<>>
    ELSE IF pod.DeletionTimestamp THEN <<>>
    ELSE << [cand EXCEPT !.Namespace = pod.Namespace, !.Name = pod.Name] >>

\* a resolve loop without the check of the deletion timestamp
ResolveCandidate_NoTerminating(cand, pod, protected) ==
    IF pod = NoPod THEN <<>>
    ELSE IF pod.Namespace \in protected THEN <<>>
    ELSE << [cand EXCEPT !.Namespace = pod.Namespace, !.Name = pod.Name] >>

\* a resolve loop that lets a candidate through whose pod is not in the cache
ResolveCandidate_KeepMissing(cand, pod, protected) ==
    IF pod = NoPod THEN << cand >>
    ELSE IF pod.DeletionTimestamp THEN <<>>
    ELSE IF pod.Namespace \in protected THEN <<>>
    ELSE << [cand EXCEPT !.Namespace = pod.Namespace, !.Name = pod.Name] >>

\* the body of the resolve loop for one candidate: the candidates appended to resolved
ResolveCandidate(cand, pod, protected) ==
    IF pod = NoPod THEN <<>>
    ELSE IF pod.DeletionTimestamp THEN <<>>
    ELSE IF pod.Namespace \in protected THEN <<>>
    ELSE << [cand EXCEPT !.Namespace = pod.Namespace, !.Name = pod.Name] >>

\* a terminate loop over resolved as the resolve loop left it
SortedSlices_Unsorted(cands) == Perms(Range(cands))

\* sort.Slice(resolved, SwapPercent descending): not stable, any descending order
SortedSlices(cands) ==
    {p \in Perms(Range(cands)) :
        \A i \in 1..(Len(p) - 1) : ~(p[i + 1].SwapPercent > p[i].SwapPercent)}

\* what Pods(namespace).Delete(ctx, name, DeleteOptions{}) may answer
DeleteOutcomes(api, cand, ctxDone) ==
    IF ctxDone THEN {"error"}
    ELSE {"error"} \cup
         (IF <<cand.Namespace, cand.Name>> \in PodKeys
             /\ api[<<cand.Namespace, cand.Name>>] # NoPod
          THEN {"ok"} ELSE {"notfound"})

\* the orchestrator after a delete that it answered with outcome: a graceful
\* delete sets the deletion timestamp and leaves the removal to the kubelet
ApiAfterDelete(api, cand, outcome) ==
    IF outcome = "ok"
    THEN [api EXCEPT ![<<cand.Namespace, cand.Name>>].DeletionTimestamp = TRUE]
    ELSE api

\* the orchestrator after a delete call that the cancelled context cut off: the
\* request may or may not have reached it
DeleteAborted(api, cand) ==
    {api} \cup (IF <<cand.Namespace, cand.Name>> \in PodKeys
                    /\ api[<<cand.Namespace, cand.Name>>] # NoPod
                 THEN {ApiAfterDelete(api, cand, "ok")} ELSE {})

\* how a delete call sent with ctx.Done() at sentDone may return when ctx.Done()
\* is at nowDone: with the orchestrator's answer, or, when the context was
\* cancelled while the request was under way, with the context's error
DeleteAnswers(api, cand, sentDone, nowDone) ==
    {[outcome |-> o, api |-> ApiAfterDelete(api, cand, o)] :
        o \in DeleteOutcomes(api, cand, sentDone)}
    \cup (IF nowDone /\ ~sentDone
          THEN {[outcome |-> "canceled", api |-> a] : a \in DeleteAborted(api, cand)}
          ELSE {})

\* a terminatePod that takes a NotFound answer for a success
TerminateReturn_NotFoundNil(outcome) ==
    IF outcome \in {"ok", "notfound"} THEN "nil" ELSE "err"

\* a terminatePod that drops the error of the delete call
TerminateReturn_AlwaysNil(outcome) == "nil"

\* terminatePod's return value for the answer of the delete call
TerminateReturn(outcome) == IF outcome # "ok" THEN "err" ELSE "nil"

\* a terminatePod that never takes the dry-run branch
IsDryRun_Never(cfg) == FALSE

\* terminatePod: if c.config.DryRun
IsDryRun(cfg) == cfg.DryRun

\* a dry run that emits the event as well
TerminateDryRun_WithEvent(cand) ==
    [requests |-> << [op |-> "event", cand |-> cand, pod |-> NoPod],
                    [op |-> "wouldDelete", cand |-> cand] >>,
     return |-> "nil"]

\* terminatePod under DryRun: the requests it makes and its return value
TerminateDryRun(cand) == [requests |-> << [op |-> "wouldDelete", cand |-> cand] >>,
                          return |-> "nil"]

\* a terminatePod that emits no event
EventRequests_Never(cfg, cand, pod) == <<>>

\* terminatePod's event: emitted when a recorder is configured and the pod is cached
EventRequests(cfg, cand, pod) ==
    IF cfg.EventRecorder /\ pod # NoPod
    THEN << [op |-> "event", cand |-> cand, pod |-> pod] >>
    ELSE <<>>

\* the loop over resolved: killed after terminatePod returned ret
KilledAfter(n, ret) == IF ret = "err" THEN n ELSE n + 1

\* findAndKillOverThreshold's return value after the terminate loop, or after
\* one of its early returns: nil, whatever the calls of terminatePod returned
FindAndKillResult(rets) == "nil"

\* a Run that returns when a delete of the tick has failed
RunAfterReconcile_ReturnOnErr(err) ==
    IF err # "nil" \/ (\E x \in Range(returns) : x.ret = "err") THEN "stopped" ELSE "idle"

\* Run after reconcile returned err: "Reconcile failed" is logged when err is
\* not nil, and the loop goes on
RunAfterReconcile(err) == "idle"

\* a loop that calls terminatePod for the same candidate again after an error
NextIndex_RetryOnErr(i, ret) == IF ret = "err" THEN i ELSE i + 1

\* for _, cand := range resolved: the loop moves on to the next candidate
\* whatever terminatePod returned
NextIndex(i, ret) == i + 1

\* a terminatePod that gives up when the pod is not in the cache
TerminateAfterEvent_EventOnly(pod) == IF pod = NoPod THEN "delete" ELSE "tick_done"

TerminateAfterEvent_NeedsPod(pod) == IF pod = NoPod THEN "tick_done" ELSE "delete"

\* terminatePod after the event block: the delete call, whatever the lookup returned
TerminateAfterEvent(pod) == "delete"

\* delete options that override the grace period with zero
DeleteOptions_GraceZero == [GracePeriodSeconds |-> <<0>>]

\* metav1.DeleteOptions{}: GracePeriodSeconds is a nil pointer
DeleteOptions == [GracePeriodSeconds |-> <<>>]

\* the grace period the orchestrator applies to a delete with these options
EffectiveGracePeriod(options) ==
    IF options.GracePeriodSeconds = <<>> THEN <<"terminationGracePeriodSeconds">>
    ELSE options.GracePeriodSeconds

\* a reconciler that adds killed to the counter, as docs/redesign-v2.md has it
PodsKilledTotalAfter_Add(total, n) == total + n

\* metrics.PodsKilledTotal after the terminate loop counted n: killed > 0 is
\* logged and nothing else
PodsKilledTotalAfter(total, n) == total

-----------------------------------------------------------------------------
(* main(): the flags *)

\* os.Getenv: the empty string for a variable that is not set
Getenv(env) == IF env.set THEN env.val ELSE ""

\* getEnvBool(key, defaultVal), on the value of the variable
getEnvBool(val, defaultVal) ==
    IF val # "" THEN val = "true" \/ val = "1" ELSE defaultVal

\* strconv.ParseBool, which the flag package applies to --dry-run=<value>
ParseBoolTrue == {"1", "t", "T", "TRUE", "true", "True"}
ParseBoolFalse == {"0", "f", "F", "FALSE", "false", "False"}

\* dryRun after flag.Parse(): the flag's value when --dry-run is given (a bare
\* --dry-run is true), else its default getEnvBool("DRY_RUN", true)
DryRunAfterParse(flag, env) ==
    IF flag = "absent" THEN getEnvBool(Getenv(env), TRUE)
    ELSE IF flag = "bare" THEN TRUE
    ELSE flag \in ParseBoolTrue

-----------------------------------------------------------------------------
(* Initial states *)

\* no function is called on its own
NoCall == [fn |-> "none"]

\* --swap-threshold-percent values of the model
Thresholds == {25}

Configs ==
    {[NodeName |-> "node-1", SwapThresholdPercent |-> t, DryRun |-> d,
      ProtectedNamespaces |-> p, EventRecorder |-> TRUE] :
        t \in Thresholds, d \in BOOLEAN, p \in {<<>>, <<"kube-system">>}}

\* memory.max of the live filesystem's containers
LiveMemoryMax(d) ==
    IF d = "a2" THEN IntFile(8) ELSE IF d = "b1" THEN IntFile(2) ELSE IntFile(4)

\* the states the directories of the running node go through
LiveStates(d) ==
    CASE d = "a1" -> {Container(s, LiveMemoryMax(d)) : s \in 0..MaxSwap}
      [] d = "a2" -> {Container(1, LiveMemoryMax(d))}
      [] d = "a3" -> {Unreadable}
      [] d = "b1" -> {Container(s, LiveMemoryMax(d)) : s \in {0, 1, MaxSwap}}
      [] OTHER -> {Container(MaxSwap, LiveMemoryMax(d))}

InitialFs ==
    [d \in Dirs |->
        IF d \in {"a1", "b1"} THEN Container(0, LiveMemoryMax(d))
        ELSE CHOOSE v \in LiveStates(d) : TRUE]

NoScan == [d \in Dirs |-> NoDir]

\* the scanner has not been called
NoScanLog == [findErr |-> FALSE, unrecognized |-> {}, called |-> {}, failed |-> {}]

NoTie == [kind |-> "none"]

\* no delete call is in progress
NoRequest == [op |-> "none"]

TickIdle ==
    /\ candidates = <<>>
    /\ overThreshold = <<>>
    /\ resolved = <<>>
    /\ idx = 1
    /\ killed = 0
    /\ inflight = NoRequest
    /\ reconcileErr = "none"
    /\ scanReads = NoScan
    /\ scanLog = NoScanLog
    /\ lookups = <<>>
    /\ requests = <<>>
    /\ returns = <<>>
    /\ cacheReads = EmptyStore
    /\ termLookups = <<>>

Init ==
    /\ config \in Configs
    /\ protectedNamespaces = New(config)
    /\ cgroupRoot \in CgroupRoots
    /\ validateErr = "none"
    /\ kubepodsDir = (IF KubepodsSlice \in cgroupRoot THEN "dir" ELSE "missing")
    /\ call = NoCall
    /\ fs = InitialFs
    /\ apiPods = InitialPods
    /\ cache = EmptyStore
    /\ synced = FALSE
    /\ cancelled = FALSE
    /\ tickerC = FALSE
    /\ pc = "validate"
    /\ TickIdle
    /\ syncResult = "none"
    /\ startupScans = FALSE
    /\ lastFailed = {}
    /\ podsKilledTotal = 0
    /\ firstTie = NoTie
    /\ deletedBefore = {}

tickVars == <<candidates, overThreshold, resolved, idx, killed, inflight, reconcileErr>>
histVars == <<scanReads, scanLog, lookups, requests, returns, cacheReads, termLookups>>
countVars == <<podsKilledTotal, firstTie, deletedBefore>>
runVars == <<syncResult, startupScans, lastFailed, countVars>>
ctlVars == <<config, protectedNamespaces>>
bootVars == <<cgroupRoot, validateErr, kubepodsDir, call>>
worldVars == <<fs, apiPods, cache, synced, cancelled, tickerC>>

\* main() is past the check of the environment and the process has not ended.
\* Between the end of the terminate loop and the return of reconcile the program
\* reads nothing of its environment: what the environment does in that time is
\* taken once Run is back at its select
Running == pc \notin {"validate", "fatal_env", "fatal", "stopped", "tick_done", "tick_return"}

-----------------------------------------------------------------------------
(* The environment *)

\* SIGINT or SIGTERM: the signal goroutine calls cancel()
Cancel ==
    /\ Running
    /\ ~cancelled
    /\ cancelled' = TRUE
    /\ UNCHANGED <<ctlVars, bootVars, fs, apiPods, cache, synced, tickerC, pc, tickVars, histVars, runVars>>

\* the informer's initial list has been applied
InformerSync ==
    /\ Running
    /\ ~synced
    /\ ~cancelled
    /\ cache' = apiPods
    /\ synced' = TRUE
    /\ UNCHANGED <<ctlVars, bootVars, fs, apiPods, cancelled, tickerC, pc, tickVars, histVars, runVars>>

\* the informer applies the pending change of one object (several changes of
\* one object before delivery collapse, as after a relist)
WatchApply(k) ==
    /\ Running
    /\ synced
    /\ ~cancelled
    /\ cache[k] # apiPods[k]
    /\ cache' = [cache EXCEPT ![k] = apiPods[k]]
    /\ UNCHANGED <<ctlVars, bootVars, fs, apiPods, synced, cancelled, tickerC, pc, tickVars, histVars, runVars>>

\* somebody else deletes a pod: the orchestrator sets its deletion timestamp
ApiDelete(k) ==
    /\ Running
    /\ apiPods[k] # NoPod
    /\ ~apiPods[k].DeletionTimestamp
    /\ apiPods' = [apiPods EXCEPT ![k].DeletionTimestamp = TRUE]
    /\ UNCHANGED <<ctlVars, bootVars, fs, cache, synced, cancelled, tickerC, pc, tickVars, histVars, runVars>>

\* the grace period of a terminating pod is over: the object is removed
ApiRemove(k) ==
    /\ Running
    /\ apiPods[k] # NoPod
    /\ apiPods[k].DeletionTimestamp
    /\ apiPods' = [apiPods EXCEPT ![k] = NoPod]
    /\ UNCHANGED <<ctlVars, bootVars, fs, cache, synced, cancelled, tickerC, pc, tickVars, histVars, runVars>>

\* the UID the orchestrator gives to a pod created anew under an old name
UidN == <<"eeee1111", "-", "2222">>

\* a controller (a StatefulSet) creates the pod anew under the name of the one
\* that was removed: the same namespace and name, another UID
ApiCreate(k) ==
    /\ Running
    /\ apiPods[k] = NoPod
    /\ apiPods' = [apiPods EXCEPT ![k] = Pod(UidN, k[1], k[2], FALSE)]
    /\ UNCHANGED <<ctlVars, bootVars, fs, cache, synced, cancelled, tickerC, pc, tickVars, histVars, runVars>>

\* the kernel changes the accounting of a container; the filesystem is read
\* by the scan only, so the changes between two scans are taken before the scan
FsWrite(d) ==
    /\ pc = "idle"
    /\ \E v \in LiveStates(d) \ {fs[d]} : fs' = [fs EXCEPT ![d] = v]
    /\ UNCHANGED <<ctlVars, bootVars, apiPods, cache, synced, cancelled, tickerC, pc, tickVars, histVars, runVars>>

\* the poll interval has passed: the ticker of Run puts a tick into ticker.C,
\* unless one is waiting there already (the runtime drops it then).  ticker.C is
\* read by the select of Run alone, so a tick that arrives while reconcile runs
\* is taken here when reconcile is about to return
TimerFire ==
    /\ pc \in {"idle", "tick_return"}
    /\ ~tickerC
    /\ tickerC' = TRUE
    /\ UNCHANGED <<ctlVars, bootVars, fs, apiPods, cache, synced, cancelled, pc, tickVars, histVars, runVars>>

-----------------------------------------------------------------------------
(* main() and Controller.Run *)

\* main(): cgroupScanner.ValidateEnvironment(), then klog.Fatalf or on
MainValidateEnvironment ==
    /\ pc = "validate"
    /\ validateErr' = ValidateEnvironment(cgroupRoot)
    /\ pc' = AfterValidate(ValidateEnvironment(cgroupRoot))
    /\ UNCHANGED <<ctlVars, cgroupRoot, kubepodsDir, call, worldVars, tickVars, histVars, runVars>>

\* main(): podInformer.WaitForCacheSync(ctx.Done()), then klog.Fatal or ctrl.Run
MainWaitForCacheSync ==
    /\ pc = "main"
    /\ \E ok \in WaitForCacheSync(synced, cancelled) :
         /\ pc' = AfterCacheSync(ok)
         /\ syncResult' = IF ok THEN "ok" ELSE "failed"
    /\ UNCHANGED <<ctlVars, bootVars, worldVars, tickVars, histVars, startupScans, lastFailed, countVars>>

\* Run: checkCgroupsAtStartup, which only logs what FindPodCgroups found
RunStartup ==
    /\ pc = "startup"
    /\ startupScans' = TRUE
    /\ pc' = "idle"
    /\ UNCHANGED <<ctlVars, bootVars, worldVars, tickVars, histVars, syncResult, lastFailed, countVars>>

\* a Run that starts reconcile in a goroutine of its own and is at its select
\* before reconcile has returned
RunAtSelect_Async == pc \in {"idle", "tick_return"}

\* Run is at the select of its loop: reconcile is called in the loop itself, so
\* the goroutine is there only when no reconcile is running
RunAtSelect == pc = "idle"

\* Run: select takes <-ctx.Done()
RunCtxDone ==
    /\ RunAtSelect
    /\ cancelled
    /\ pc' = "stopped"
    /\ UNCHANGED <<ctlVars, bootVars, worldVars, tickVars, histVars, runVars>>

\* a loop over resolved that stops after its first iteration
NextCandidate_StopAtFirst == "tick_done"

\* the position after terminatePod returned for resolved[idx]
NextCandidate == IF idx < Len(resolved) THEN "terminate" ELSE "tick_done"

\* a terminate loop that ends at the first error
ContinueAfter_AbortOnErr(ret) == IF ret = "err" THEN "tick_done" ELSE NextCandidate

\* the terminate loop after terminatePod returned ret: `continue` after an
\* error, killed++ otherwise, the next iteration in both cases
ContinueAfter(ret) == NextCandidate

\* the UIDs of this tick's delete requests, in the order of the requests
DeleteOrder ==
    LET dels == SelectSeq(requests, LAMBDA r : r.op = "delete")
    IN  [i \in 1..Len(dels) |-> dels[i].cand.UID]

\* this tick issued delete requests for two candidates of equal SwapPercent
TieTick ==
    \E i \in 1..Len(requests) : \E j \in 1..Len(requests) :
        /\ i # j
        /\ requests[i].op = "delete" /\ requests[j].op = "delete"
        /\ requests[i].cand.SwapPercent = requests[j].cand.SwapPercent

\* what this tick read and the order of its delete requests
ThisTick ==
    [kind |-> "tie", reads |-> scanReads, cache |-> cacheReads,
     pods |-> Range(lookups), order |-> DeleteOrder]

\* Run: select takes <-ticker.C, also when ctx.Done() is ready as well (select
\* chooses among the ready cases at random); reconcile up to the first cache lookup:
\* scanCgroupsForSwap and the threshold filter
ReconcileScan ==
    /\ RunAtSelect
    /\ tickerC
    /\ tickerC' = FALSE
    /\ IF FindPodCgroupsErr(kubepodsDir)
       THEN /\ candidates' = <<>>
            /\ overThreshold' = <<>>
            /\ pc' = "tick_done"
            /\ scanLog' = [NoScanLog EXCEPT !.findErr = TRUE]
       ELSE \E walk \in WalkOrders(Walked(kubepodsDir, fs)) :
              \E cands \in MapToSlices(scanCgroupsForSwap(fs, walk)) :
                LET over == FilterOverThreshold(cands, config.SwapThresholdPercent)
                IN  /\ candidates' = cands
                    /\ overThreshold' = over
                    /\ pc' = IF Len(cands) = 0 \/ Len(over) = 0 THEN "tick_done" ELSE "resolve"
                    /\ scanLog' = [findErr |-> FALSE,
                                   unrecognized |->
                                       FindPodCgroups(Walked(kubepodsDir, fs)).Unrecognized,
                                   called |-> MetricsCalled(walk),
                                   failed |-> MetricsFailed(fs, walk)]
    /\ resolved' = <<>>
    /\ idx' = 1
    /\ killed' = 0
    /\ inflight' = NoRequest
    /\ reconcileErr' = "none"
    /\ scanReads' = Walked(kubepodsDir, fs)
    /\ lookups' = <<>>
    /\ requests' = <<>>
    /\ returns' = <<>>
    /\ cacheReads' = cache
    /\ termLookups' = <<>>
    /\ UNCHANGED <<ctlVars, bootVars, fs, apiPods, cache, synced, cancelled, runVars>>

\* one iteration of the resolve loop; after the last one, the sort
ReconcileResolve ==
    /\ pc = "resolve"
    /\ LET cand == overThreshold[idx]
           pod == GetPodByUID(cache, cand.UID)
           res == resolved \o ResolveCandidate(cand, pod, protectedNamespaces)
       IN  /\ lookups' = Append(lookups, [uid |-> cand.UID, pod |-> pod])
           /\ requests' = requests \o GetPodByUIDRequests(cand.UID)
           /\ IF idx < Len(overThreshold)
              THEN /\ resolved' = res
                   /\ idx' = idx + 1
                   /\ pc' = "resolve"
              ELSE /\ resolved' \in SortedSlices(res)
                   /\ idx' = 1
                   /\ pc' = IF res = <<>> THEN "tick_done" ELSE "terminate"
    /\ UNCHANGED <<ctlVars, bootVars, worldVars, candidates, overThreshold, killed, inflight,
                   reconcileErr, scanReads, scanLog, returns, cacheReads, termLookups, runVars>>

\* terminatePod(resolved[idx]) up to the delete call: the dry-run return, or the event
TerminatePodBegin ==
    /\ pc = "terminate"
    /\ LET cand == resolved[idx]
           pod == GetPodByUID(cache, cand.UID)
       IN  IF IsDryRun(config)
           THEN /\ requests' = requests \o TerminateDryRun(cand).requests
                /\ returns' = Append(returns, [uid |-> cand.UID,
                                               ret |-> TerminateDryRun(cand).return])
                /\ killed' = KilledAfter(killed, TerminateDryRun(cand).return)
                /\ idx' = NextIndex(idx, TerminateDryRun(cand).return)
                /\ pc' = ContinueAfter(TerminateDryRun(cand).return)
                /\ UNCHANGED termLookups
           ELSE /\ requests' = requests \o EventRequests(config, cand, pod)
                /\ termLookups' = IF config.EventRecorder
                                  THEN Append(termLookups, [uid |-> cand.UID, pod |-> pod])
                                  ELSE termLookups
                /\ pc' = TerminateAfterEvent(pod)
                /\ UNCHANGED <<returns, killed, idx>>
    /\ UNCHANGED <<ctlVars, bootVars, worldVars, candidates, overThreshold, resolved, inflight,
                   reconcileErr, scanReads, scanLog, lookups, cacheReads, runVars>>

\* terminatePod(resolved[idx]): Pods(namespace).Delete(ctx, name, DeleteOptions{})
\* is called with the context of Run
TerminatePodDelete ==
    /\ pc = "delete"
    /\ inflight' = [op |-> "delete", cand |-> resolved[idx],
                    cached |-> GetPodByUID(cache, resolved[idx].UID),
                    options |-> DeleteOptions, ctxDone |-> cancelled]
    /\ pc' = "delete_wait"
    /\ UNCHANGED <<ctlVars, bootVars, worldVars, candidates, overThreshold, resolved, idx, killed,
                   reconcileErr, histVars, runVars>>

\* terminatePod(resolved[idx]): the delete call returns, and terminatePod with it
TerminatePodDeleteReturn ==
    /\ pc = "delete_wait"
    /\ \E a \in DeleteAnswers(apiPods, inflight.cand, inflight.ctxDone, cancelled) :
         /\ requests' = Append(requests,
                [op |-> "delete", cand |-> inflight.cand, outcome |-> a.outcome,
                 cached |-> inflight.cached, options |-> inflight.options,
                 ctxDone |-> inflight.ctxDone])
         /\ apiPods' = a.api
         /\ returns' = Append(returns, [uid |-> inflight.cand.UID,
                                        ret |-> TerminateReturn(a.outcome)])
         /\ killed' = KilledAfter(killed, TerminateReturn(a.outcome))
         /\ idx' = NextIndex(idx, TerminateReturn(a.outcome))
         /\ pc' = ContinueAfter(TerminateReturn(a.outcome))
    /\ inflight' = NoRequest
    /\ UNCHANGED <<ctlVars, bootVars, fs, cache, synced, cancelled, tickerC, candidates, overThreshold,
                   resolved, reconcileErr, scanReads, scanLog, lookups, cacheReads, termLookups, runVars>>

\* findAndKillOverThreshold after the terminate loop: if killed > 0 (the early
\* returns of an empty tick pass here with killed = 0, where the block does
\* nothing); what the tick read and requested is over and is forgotten here
ReconcileCountStep ==
    /\ pc = "tick_done"
    /\ pc' = "tick_return"
    /\ reconcileErr' = FindAndKillResult(returns)
    /\ podsKilledTotal' = PodsKilledTotalAfter(podsKilledTotal, killed)
    /\ lastFailed' = {r.uid : r \in {x \in Range(returns) : x.ret = "err"}}
    /\ candidates' = <<>>
    /\ overThreshold' = <<>>
    /\ resolved' = <<>>
    /\ idx' = 1
    /\ scanReads' = NoScan
    /\ scanLog' = NoScanLog
    /\ lookups' = <<>>
    /\ requests' = <<>>
    /\ cacheReads' = EmptyStore
    /\ termLookups' = <<>>
    /\ UNCHANGED <<ctlVars, bootVars, worldVars, killed, inflight, returns, syncResult, startupScans>>

ReconcileCount == ReconcileCountStep /\ UNCHANGED <<firstTie, deletedBefore>>

\* the same step, with the first tie among the delete requests noted
ReconcileCountNoted ==
    /\ ReconcileCountStep
    /\ firstTie' = IF firstTie = NoTie /\ TieTick THEN ThisTick ELSE firstTie
    /\ UNCHANGED deletedBefore

\* the same step, with the pods noted that a delete of this tick succeeded for
ReconcileCountKept ==
    /\ ReconcileCountStep
    /\ deletedBefore' = deletedBefore \cup
            {r.cand.UID : r \in {x \in Range(requests) : x.op = "delete" /\ x.outcome = "ok"}}
    /\ UNCHANGED firstTie

\* findAndKillOverThreshold and reconcile return; Run logs an error and goes
\* round its loop
ReconcileReturn ==
    /\ pc = "tick_return"
    /\ pc' = RunAfterReconcile(reconcileErr)
    /\ reconcileErr' = "none"
    /\ killed' = 0
    /\ returns' = <<>>
    /\ UNCHANGED <<ctlVars, bootVars, worldVars, candidates, overThreshold, resolved, idx, inflight,
                   scanReads, scanLog, lookups, requests, cacheReads, termLookups, runVars>>

Next ==
    \/ Cancel
    \/ InformerSync
    \/ \E k \in PodKeys : WatchApply(k)
    \/ \E k \in PodKeys : ApiDelete(k)
    \/ \E k \in PodKeys : ApiRemove(k)
    \/ \E d \in Dirs : FsWrite(d)
    \/ TimerFire
    \/ MainValidateEnvironment
    \/ MainWaitForCacheSync
    \/ RunStartup
    \/ RunCtxDone
    \/ ReconcileScan
    \/ ReconcileResolve
    \/ TerminatePodBegin
    \/ TerminatePodDelete
    \/ TerminatePodDeleteReturn
    \/ ReconcileCount
    \/ ReconcileReturn

Spec == Init /\ [][Next]_vars

-----------------------------------------------------------------------------
(* The scan alone, over a wide range of filesystems *)

\* memory.max contents of the scanned filesystems: zero, two limits, the literal max
ScanMemoryMax == {IntFile(0), IntFile(4), IntFile(8), MaxFile}

\* a container with swap in use, one of whose four files is missing or holds
\* what cannot be parsed
BrokenContainers ==
    LET c == Container(MaxSwap, IntFile(4))
    IN  UNION {{[c EXCEPT !.swapCurrent = b], [c EXCEPT !.memoryCurrent = b],
                [c EXCEPT !.memoryMax = b], [c EXCEPT !.memoryPressure = b]} :
                    b \in {MissingFile, GarbageFile}}

ScanStates(d) ==
    IF d = "a1"
    THEN {NoDir, Unreadable} \cup {Container(s, m) : s \in 0..MaxSwap, m \in ScanMemoryMax}
    ELSE IF d = "a2"
    THEN {NoDir, Unreadable} \cup BrokenContainers
            \cup {Container(s, m) : s \in 0..MaxSwap, m \in ScanMemoryMax}
    ELSE IF d = "a3"
    THEN {Unreadable}
    ELSE IF d = "b1"
    THEN {NoDir, WalkErr, Container(0, IntFile(4)), Container(1, IntFile(4)),
          Container(MaxSwap, IntFile(4))}
    ELSE IF d = "g1"
    THEN {Container(0, IntFile(4)), Container(MaxSwap, IntFile(4))}
    ELSE {Container(MaxSwap, IntFile(4))}

ScanFilesystems ==
    {[d \in Dirs |-> CASE d = "a1" -> a1 [] d = "a2" -> a2 [] d = "a3" -> a3 [] d = "b1" -> b1
                        [] d = "g1" -> g1 [] d = "e1" -> e1 [] d = "x1" -> x1] :
        a1 \in ScanStates("a1"), a2 \in ScanStates("a2"), a3 \in ScanStates("a3"),
        b1 \in ScanStates("b1"),
        g1 \in ScanStates("g1"), e1 \in ScanStates("e1"), x1 \in ScanStates("x1")}

ScanThresholds == {0, 25}

InitScan ==
    /\ config \in {[NodeName |-> "node-1", SwapThresholdPercent |-> t, DryRun |-> TRUE,
                    ProtectedNamespaces |-> <<"kube-system">>, EventRecorder |-> TRUE] :
                        t \in ScanThresholds}
    /\ protectedNamespaces = New(config)
    /\ cgroupRoot = FullRoot
    /\ validateErr = "nil"
    /\ call = NoCall
    /\ \/ kubepodsDir \in {"dir", "noperm"} /\ fs \in ScanFilesystems
       \/ kubepodsDir = "missing" /\ fs = [d \in Dirs |-> NoDir]
    /\ apiPods = InitialPods
    /\ cache = InitialPods
    /\ synced = TRUE
    /\ cancelled = FALSE
    /\ tickerC = TRUE
    /\ pc = "idle"
    /\ TickIdle
    /\ syncResult = "ok"
    /\ startupScans = TRUE
    /\ lastFailed = {}
    /\ podsKilledTotal = 0
    /\ firstTie = NoTie
    /\ deletedBefore = {}

NextScan == ReconcileScan

SpecScan == InitScan /\ [][NextScan]_vars

-----------------------------------------------------------------------------
(* The ticks alone, on a node whose pods stay as the informer first saw them *)

InitTicks ==
    /\ config \in {c \in Configs : ~c.DryRun /\ c.ProtectedNamespaces = <<>>}
    /\ protectedNamespaces = New(config)
    /\ cgroupRoot = FullRoot
    /\ validateErr = "nil"
    /\ kubepodsDir = "dir"
    /\ call = NoCall
    /\ fs = InitialFs
    /\ apiPods = InitialPods
    /\ cache = InitialPods
    /\ synced = TRUE
    /\ cancelled = FALSE
    /\ tickerC = FALSE
    /\ pc = "idle"
    /\ TickIdle
    /\ syncResult = "ok"
    /\ startupScans = TRUE
    /\ lastFailed = {}
    /\ podsKilledTotal = 0
    /\ firstTie = NoTie
    /\ deletedBefore = {}

NextTicks ==
    \/ TimerFire
    \/ \E d \in Dirs : FsWrite(d)
    \/ ReconcileScan
    \/ ReconcileResolve
    \/ TerminatePodBegin
    \/ TerminatePodDelete
    \/ TerminatePodDeleteReturn
    \/ ReconcileCountNoted
    \/ ReconcileReturn

SpecTicks == InitTicks /\ [][NextTicks]_vars

-----------------------------------------------------------------------------
(* The ticks on a node whose pods are deleted, removed and created anew while
   the informer follows *)

\* the pods of a StatefulSet, which keep their names
StatefulPods == {<<"default", "web-0">>}

NextPods ==
    \/ \E k \in PodKeys : WatchApply(k)
    \/ \E k \in StatefulPods : ApiDelete(k)
    \/ \E k \in StatefulPods : ApiRemove(k)
    \/ \E k \in StatefulPods : ApiCreate(k)
    \/ TimerFire
    \/ \E d \in Dirs : FsWrite(d)
    \/ ReconcileScan
    \/ ReconcileResolve
    \/ TerminatePodBegin
    \/ TerminatePodDelete
    \/ TerminatePodDeleteReturn
    \/ ReconcileCountKept
    \/ ReconcileReturn

SpecPods == InitTicks /\ [][NextPods]_vars

-----------------------------------------------------------------------------
(* Functions called on their own: ExtractPodUID over a range of paths, and the
   parsing of --dry-run and DRY_RUN at the start of main() *)

\* pod UIDs as the orchestrator writes them: UUID-shaped, and a static pod's hash
CallUids == {UidA, <<"abc", "-", "def", "-", "123">>, <<"0f3c9a">>}

\* path components, each with the UID the orchestrator has for the pod whose
\* slice it is (the empty sequence: not a pod slice)
SliceComponents ==
    {[text |-> <<"kubepods", ".slice">>, uid |-> <<>>],
     [text |-> <<"kubepods", "-burstable", ".slice">>, uid |-> <<>>],
     [text |-> <<"system", ".slice">>, uid |-> <<>>],
     [text |-> <<"cri-containerd-", "abc", ".scope">>, uid |-> <<>>],
     [text |-> <<"crio", "-pod", "abc", ".scope">>, uid |-> <<>>],
     [text |-> <<"kubepods", "-pod", ".slice">>, uid |-> <<>>]}
    \cup {[text |-> <<"kubepods", "-burstable", "-pod">> \o CgroupUID(u) \o <<".slice">>,
           uid |-> u] : u \in CallUids}
    \cup {[text |-> <<"kubepods", "-pod">> \o CgroupUID(u) \o <<".slice">>,
           uid |-> u] : u \in CallUids}

MaxPathLen == 3

CallPaths ==
    UNION {[1..n -> SliceComponents] : n \in 1..MaxPathLen}

\* values of DRY_RUN in the environment, and ways to give --dry-run
EnvValues == {"", "true", "1", "false", "0", "TRUE", "True", "FALSE", "yes", "no", "on", "garbage"}
DryRunEnvs == {[set |-> FALSE, val |-> ""]} \cup {[set |-> TRUE, val |-> v] : v \in EnvValues}
DryRunFlags == {"absent", "bare", "true", "false", "0"}

InitCalls ==
    /\ config \in {c \in Configs : c.DryRun /\ c.ProtectedNamespaces = <<"kube-system">>}
    /\ protectedNamespaces = New(config)
    /\ cgroupRoot = FullRoot
    /\ validateErr = "none"
    /\ kubepodsDir = "dir"
    /\ \/ call \in {[fn |-> "ExtractPodUID", path |-> q, done |-> FALSE, ret |-> <<>>] :
                        q \in CallPaths}
       \/ call \in {[fn |-> "flag.Parse", flag |-> f, env |-> e, done |-> FALSE, ret |-> TRUE] :
                        f \in DryRunFlags, e \in DryRunEnvs}
    /\ fs = InitialFs
    /\ apiPods = InitialPods
    /\ cache = EmptyStore
    /\ synced = FALSE
    /\ cancelled = FALSE
    /\ tickerC = FALSE
    /\ pc = "validate"
    /\ TickIdle
    /\ syncResult = "none"
    /\ startupScans = FALSE
    /\ lastFailed = {}
    /\ podsKilledTotal = 0
    /\ firstTie = NoTie
    /\ deletedBefore = {}

\* cgroup.ExtractPodUID(path)
CallExtractPodUID ==
    /\ call.fn = "ExtractPodUID"
    /\ ~call.done
    /\ call' = [call EXCEPT !.done = TRUE,
                            !.ret = ExtractPodUID([i \in 1..Len(call.path) |-> call.path[i].text])]
    /\ UNCHANGED <<ctlVars, cgroupRoot, validateErr, kubepodsDir, worldVars, pc, tickVars, histVars, runVars>>

\* main(): flag.BoolVar(&dryRun, "dry-run", getEnvBool("DRY_RUN", true), ...),
\* flag.Parse(); dryRun becomes Config.DryRun
MainParseFlags ==
    /\ call.fn = "flag.Parse"
    /\ ~call.done
    /\ call' = [call EXCEPT !.done = TRUE, !.ret = DryRunAfterParse(call.flag, call.env)]
    /\ config' = [config EXCEPT !.DryRun = DryRunAfterParse(call.flag, call.env)]
    /\ UNCHANGED <<protectedNamespaces, cgroupRoot, validateErr, kubepodsDir, worldVars, pc, tickVars, histVars, runVars>>

NextCalls == CallExtractPodUID \/ MainParseFlags

SpecCalls == InitCalls /\ [][NextCalls]_vars

-----------------------------------------------------------------------------
(* What a scan had before it, read off the directory table and the files
   themselves rather than off the paths and the scanner's results *)

AllUids == {DirTable[d].uid : d \in Dirs}

\* the containers of pod uid that lie below the burstable slice under a known runtime
PodContainers(uid) ==
    {d \in Dirs : /\ DirTable[d].uid = uid
                  /\ DirTable[d].qos = "burstable"
                  /\ DirTable[d].runtime \in {"cri-containerd-", "crio-"}}

\* the directory was there and each of its four files could be read
WasRead(st) ==
    /\ st.kind = "dir"
    /\ st.swapCurrent.kind = "int"
    /\ st.memoryCurrent.kind = "int"
    /\ st.memoryMax.kind \in {"int", "max"}
    /\ st.memoryPressure.kind # "missing"

\* memory_max of a container, the literal max normalised to the sentinel
Limit(st) == IF st.memoryMax.kind = "max" THEN MemoryMaxUnlimited ELSE st.memoryMax.val

\* swap_current / memory_max * 100 > t, in integers
RatioAbove(st, t) ==
    WasRead(st) /\ Limit(st) > 0 /\ st.swapCurrent.val * 100 > t * Limit(st)

\* swap_current / memory_max * 100 = t, in integers
RatioIs(st, t) ==
    WasRead(st) /\ Limit(st) > 0 /\ st.swapCurrent.val * 100 = t * Limit(st)

\* swap_current / memory_max * 100 as a multiple of 1/PctScale (every limit of
\* the model divides PctScale); zero where memory_max is zero
ScaledRatio(st) ==
    IF Limit(st) > 0 THEN st.swapCurrent.val * 100 * (PctScale \div Limit(st)) ELSE 0

\* the containers of pod uid that a scan read with swap in use
Contributors(reads, uid) ==
    {d \in PodContainers(uid) : WasRead(reads[d]) /\ reads[d].swapCurrent.val > 0}

DeleteRequests == {r \in Range(requests) : r.op = "delete"}

ProtectedSet == Range(config.ProtectedNamespaces)

\* a cache record that the resolve loop lets through
LiveUnprotected(pod) ==
    pod # NoPod /\ ~pod.DeletionTimestamp /\ pod.Namespace \notin ProtectedSet

-----------------------------------------------------------------------------
(* Properties *)

\* C1: no delete request is ever issued for a pod whose namespace is in
\* protected_namespaces: neither the namespace the request names nor the
\* namespace of the pod with the candidate's UID is a protected one.
C1_ProtectedNeverDeleted ==
    \A r \in DeleteRequests :
        /\ r.cand.Namespace \notin ProtectedSet
        /\ \A k \in PodKeys : UIDOfKey(k) = r.cand.UID => k[1] \notin ProtectedSet

\* a tick has ended in which a live pod of a protected namespace was over the
\* threshold and was looked up, and another pod was deleted
C1_Witness ==
    /\ pc = "tick_done"
    /\ DeleteRequests # {}
    /\ \E l \in Range(lookups) :
          /\ l.pod # NoPod
          /\ ~l.pod.DeletionTimestamp
          /\ l.pod.Namespace \in ProtectedSet
          /\ \E d \in PodContainers(l.uid) :
                RatioAbove(scanReads[d], config.SwapThresholdPercent)

\* C2: with dry_run true no delete request is sent in any tick, and terminate
\* returns success for every resolved candidate.
C2_DryRunSendsNoDelete ==
    config.DryRun =>
        /\ DeleteRequests = {}
        /\ \A x \in Range(returns) : x.ret = "nil"
        /\ pc = "tick_done" => {x.uid : x \in Range(returns)} = {c.UID : c \in Range(resolved)}

\* a dry-run tick has ended in which terminate was called for two pods
C2_Witness ==
    /\ config.DryRun
    /\ pc = "tick_done"
    /\ Len(resolved) = 2
    /\ Len(returns) = 2
    /\ \A i \in 1..2 : requests[i].op = "wouldDelete"

\* C3 as stated: when a delete request is issued, the record of the target pod
\* in the pod cache has no deletion_timestamp.
C3_CacheLiveAtDelete ==
    \A r \in DeleteRequests : r.cached # NoPod => ~r.cached.DeletionTimestamp

\* C3: every delete request of a tick targets a pod whose cache record, as the
\* resolve lookup of that tick returned it, existed and had no
\* deletion_timestamp; the request names that record's namespace and name.
C3_CacheLiveAtResolve ==
    \A r \in DeleteRequests :
        \E l \in Range(lookups) :
            /\ l.uid = r.cand.UID
            /\ l.pod # NoPod
            /\ ~l.pod.DeletionTimestamp
            /\ l.pod.Namespace = r.cand.Namespace
            /\ l.pod.Name = r.cand.Name

\* a delete request went out for a pod that a watch event had marked as
\* terminating in the cache after the resolve lookup
C3_Witness ==
    \E r \in DeleteRequests :
        /\ r.cached # NoPod
        /\ r.cached.DeletionTimestamp
        /\ \E l \in Range(lookups) : l.uid = r.cand.UID /\ ~l.pod.DeletionTimestamp

\* C4: every delete request of a tick targets a pod of which the scan of that
\* tick read at least one container with swap_current/memory_max * 100
\* strictly above swap_threshold_percent.
C4_DeletedWasOverThreshold ==
    \A r \in DeleteRequests :
        \E d \in PodContainers(r.cand.UID) :
            RatioAbove(scanReads[d], config.SwapThresholdPercent)

\* a pod was deleted of which one container was above and one below the threshold
C4_Witness ==
    \E r \in DeleteRequests :
        /\ \E d \in PodContainers(r.cand.UID) :
              RatioAbove(scanReads[d], config.SwapThresholdPercent)
        /\ \E d \in Contributors(scanReads, r.cand.UID) :
              ~RatioAbove(scanReads[d], config.SwapThresholdPercent)

\* C5: with dry_run false, at the end of a tick every pod with a container
\* above the threshold has been looked up in the cache, and every such pod
\* whose record was there, not terminating and not protected has received a
\* delete request in that tick, whether or not its delete failed the tick before.
C5_AllEligibleDeleted ==
    (pc = "tick_done" /\ ~config.DryRun) =>
        \A uid \in AllUids :
            (\E d \in PodContainers(uid) :
                RatioAbove(scanReads[d], config.SwapThresholdPercent)) =>
              /\ \E l \in Range(lookups) : l.uid = uid
              /\ \A l \in Range(lookups) :
                    (l.uid = uid /\ LiveUnprotected(l.pod)) =>
                        \E r \in DeleteRequests :
                            /\ r.cand.UID = uid
                            /\ r.cand.Namespace = l.pod.Namespace
                            /\ r.cand.Name = l.pod.Name

\* a tick has ended with delete requests for two pods, one of them a pod whose
\* delete had failed in the tick before
C5_Witness ==
    /\ pc = "tick_done"
    /\ ~config.DryRun
    /\ Cardinality({r.cand.UID : r \in DeleteRequests}) = 2
    /\ \E r \in DeleteRequests : r.cand.UID \in lastFailed

C7_NothingBeforeSync ==
    /\ pc \notin {"validate", "fatal_env", "main", "fatal"} => syncResult = "ok"
    /\ (startupScans \/ scanReads # NoScan \/ lookups # <<>> \/ requests # <<>>)
          => syncResult = "ok"
    /\ syncResult = "ok" => synced
    /\ syncResult = "failed" => (pc = "fatal" /\ ~startupScans /\ scanReads = NoScan)
    /\ pc = "fatal" => syncResult = "failed"

\* a tick has run to its end, with requests, after the sync
C7_Witness ==
    /\ pc = "tick_done"
    /\ startupScans
    /\ requests # <<>>
    /\ syncResult = "ok"

\* C8: after a scan the candidates hold only UIDs of pods with a directory
\* below the burstable slice; a pod of the guaranteed or besteffort class is
\* never among them.
C8_OnlyBurstableCandidates ==
    \A c \in Range(candidates) :
        /\ c.UID \notin {DirTable[d].uid : d \in {x \in Dirs : DirTable[x].qos # "burstable"}}
        /\ \E d \in Dirs :
              /\ DirTable[d].qos = "burstable"
              /\ DirTable[d].uid = c.UID
              /\ scanReads[d] # NoDir

\* a scan has found a candidate while a guaranteed and a besteffort container
\* had swap in use
C8_Witness ==
    /\ pc # "idle"
    /\ candidates # <<>>
    /\ WasRead(scanReads["g1"]) /\ scanReads["g1"].swapCurrent.val > 0
    /\ WasRead(scanReads["e1"]) /\ scanReads["e1"].swapCurrent.val > 0

\* C9: after a scan there is one candidate for each pod of which a container
\* was read with swap in use, and no other; its swap_percent is the ratio of
\* one of those containers and is not below the ratio of any container read.
C9_SwapPercentIsMax ==
    /\ \A i \in 1..Len(candidates) : \A j \in 1..Len(candidates) :
          candidates[i].UID = candidates[j].UID => i = j
    /\ {c.UID : c \in Range(candidates)}
          = {uid \in AllUids : Contributors(scanReads, uid) # {}}
    /\ \A c \in Range(candidates) :
          /\ \E d \in Contributors(scanReads, c.UID) :
                c.SwapPercent = ScaledRatio(scanReads[d])
          /\ \A d \in PodContainers(c.UID) :
                WasRead(scanReads[d]) => c.SwapPercent >= ScaledRatio(scanReads[d])

\* a scan has read two containers of one pod with different ratios above zero
C9_Witness ==
    /\ pc # "idle"
    /\ \E c \in Range(candidates) :
          /\ c.UID = UidA
          /\ Contributors(scanReads, UidA) = {"a1", "a2"}
          /\ ScaledRatio(scanReads["a1"]) # ScaledRatio(scanReads["a2"])
          /\ ScaledRatio(scanReads["a2"]) > 0
          /\ ScaledRatio(scanReads["a1"]) > 0

\* C10: a pod none of whose containers was read with a ratio strictly above
\* swap_threshold_percent, a pod exactly at the threshold included, is not
\* over the threshold, is not resolved and is named in no request.
C10_StrictThreshold ==
    \A uid \in AllUids :
        (\A d \in PodContainers(uid) :
            ~RatioAbove(scanReads[d], config.SwapThresholdPercent)) =>
          /\ \A c \in Range(overThreshold) \cup Range(resolved) : c.UID # uid
          /\ \A r \in Range(requests) : r.cand.UID # uid

\* a tick has ended in which a pod exactly at the threshold was spared and
\* another pod was deleted
C10_Witness ==
    /\ pc = "tick_done"
    /\ DeleteRequests # {}
    /\ \E d \in PodContainers(UidA) : RatioIs(scanReads[d], config.SwapThresholdPercent)
    /\ \A d \in PodContainers(UidA) : ~RatioAbove(scanReads[d], config.SwapThresholdPercent)
    /\ \E c \in Range(candidates) : c.UID = UidA
    /\ \A r \in Range(requests) : r.cand.UID # UidA

\* the largest ratio among the containers of pod uid read with swap in use
PodMaxScaled(reads, uid) ==
    LET ratios == {ScaledRatio(reads[d]) : d \in Contributors(reads, uid)}
    IN  IF ratios = {} THEN 0 ELSE CHOOSE m \in ratios : \A x \in ratios : m >= x

\* a container of pod uid was read above the threshold
OverThresholdPod(reads, uid) ==
    \E d \in PodContainers(uid) : RatioAbove(reads[d], config.SwapThresholdPercent)

\* the delete requests of this tick whose answer was a success
OkDeletes == Cardinality({i \in 1..Len(requests) :
                 requests[i].op = "delete" /\ requests[i].outcome = "ok"})

\* C11: when the terminate loop of a tick is over, terminatePod has returned
\* once for every resolved candidate, in the order of resolved, whatever the
\* earlier calls returned; with dry_run false each of them made a delete request.
C11_FailureDoesNotAbort ==
    pc = "tick_done" =>
        /\ Len(returns) = Len(resolved)
        /\ \A i \in 1..Len(resolved) : returns[i].uid = resolved[i].UID
        /\ ~config.DryRun =>
              \A c \in Range(resolved) : \E r \in DeleteRequests : r.cand = c

\* a tick has ended in which the first delete failed with an error of the
\* orchestrator and the second candidate was deleted
C11_Witness ==
    /\ pc = "tick_done"
    /\ Len(resolved) = 2
    /\ returns[1].ret = "err"
    /\ \E r \in DeleteRequests : r.cand = resolved[1] /\ r.outcome = "error"
    /\ \E r \in DeleteRequests : r.cand = resolved[2] /\ r.outcome = "ok"
    /\ returns[2].ret = "nil"

\* C12: within a tick the delete requests go out in descending order of the
\* pods' largest container ratio: of two delete requests the earlier one is
\* for a pod whose ratio is not below that of the later one.
C12_DescendingOrder ==
    \A i \in 1..Len(requests) : \A j \in 1..Len(requests) :
        (i < j /\ requests[i].op = "delete" /\ requests[j].op = "delete") =>
            PodMaxScaled(scanReads, requests[i].cand.UID)
                >= PodMaxScaled(scanReads, requests[j].cand.UID)

\* two pods of different ratios were deleted in one tick
C12_Witness ==
    \E i \in 1..Len(requests) : \E j \in 1..Len(requests) :
        /\ i < j
        /\ requests[i].op = "delete" /\ requests[j].op = "delete"
        /\ PodMaxScaled(scanReads, requests[i].cand.UID)
              > PodMaxScaled(scanReads, requests[j].cand.UID)

\* C13 as stated: the delete requests of a tick are those for the pods that
\* the filesystem shows above the threshold and that the pod cache, as it was
\* when the tick began, shows live and unprotected.
C13_PureOfTickStart ==
    (pc = "tick_done" /\ ~config.DryRun) =>
        {r.cand.UID : r \in DeleteRequests}
            = {uid \in AllUids : /\ OverThresholdPod(scanReads, uid)
                                 /\ LiveUnprotected(GetPodByUID(cacheReads, uid))}

\* C13: a tick looks up the pods that its scan read above the threshold, and
\* its delete requests are those for the pods among them that the lookup
\* returned live and unprotected, by the namespace and name the lookup
\* returned; with dry_run there are none. Nothing else the reconciler holds enters.
C13_PureOfReads ==
    pc = "tick_done" =>
        /\ {l.uid : l \in Range(lookups)}
              = {uid \in AllUids : OverThresholdPod(scanReads, uid)}
        /\ {r.cand.UID : r \in DeleteRequests}
              = IF config.DryRun THEN {}
                ELSE {uid \in AllUids :
                        /\ OverThresholdPod(scanReads, uid)
                        /\ \E l \in Range(lookups) : l.uid = uid /\ LiveUnprotected(l.pod)}
        /\ \A r \in DeleteRequests : \E l \in Range(lookups) :
              /\ l.uid = r.cand.UID
              /\ l.pod # NoPod
              /\ r.cand.Namespace = l.pod.Namespace
              /\ r.cand.Name = l.pod.Name

\* a tick has ended that deleted one pod and spared another that was live in
\* the cache when the tick began and terminating when the tick looked it up
C13_Witness ==
    /\ pc = "tick_done"
    /\ DeleteRequests # {}
    /\ \E l \in Range(lookups) :
          /\ l.pod # NoPod
          /\ l.pod.DeletionTimestamp
          /\ LiveUnprotected(GetPodByUID(cacheReads, l.uid))
          /\ \A r \in DeleteRequests : r.cand.UID # l.uid

\* C14 as stated: a tick that deletes two pods of equal swap_percent on the
\* filesystem, cache and lookup results of an earlier such tick issues its
\* delete requests in the order of that earlier tick.
C14_TieOrderDeterministic ==
    (/\ pc = "tick_done"
     /\ firstTie # NoTie
     /\ TieTick
     /\ scanReads = firstTie.reads
     /\ cacheReads = firstTie.cache
     /\ Range(lookups) = firstTie.pods) => DeleteOrder = firstTie.order

\* C15: a delete request for a pod that terminatePod found in the cache comes
\* after the Soomkilled event for that pod, and no event for the pod follows it.
C15_EventBeforeDelete ==
    \A j \in 1..Len(requests) :
        requests[j].op = "delete" =>
            /\ \A t \in Range(termLookups) :
                  (t.uid = requests[j].cand.UID /\ t.pod # NoPod) =>
                      \E i \in 1..(j - 1) :
                          /\ requests[i].op = "event"
                          /\ requests[i].cand.UID = requests[j].cand.UID
                          /\ requests[i].pod = t.pod
            /\ \A i \in (j + 1)..Len(requests) :
                  ~(requests[i].op = "event" /\ requests[i].cand.UID = requests[j].cand.UID)

\* the second delete request of a tick went out, each after its event
C15_Witness ==
    /\ Len(requests) = 4
    /\ requests[1].op = "event" /\ requests[2].op = "delete"
    /\ requests[3].op = "event" /\ requests[4].op = "delete"
    /\ requests[3].cand.UID = requests[4].cand.UID
    /\ \A t \in Range(termLookups) : t.pod # NoPod

\* C16: with dry_run false every call of terminatePod that is past its delete
\* call has made a delete request, found the pod in the cache or not; for a pod
\* not found there is no event.
C16_DeleteWithoutEvent ==
    ~config.DryRun =>
        \A i \in 1..Len(termLookups) :
            /\ (i < Len(termLookups) \/ pc \notin {"delete", "delete_wait"}) =>
                  \E r \in DeleteRequests : r.cand.UID = termLookups[i].uid
            /\ termLookups[i].pod = NoPod =>
                  \A r \in Range(requests) :
                      ~(r.op = "event" /\ r.cand.UID = termLookups[i].uid)

\* a pod was deleted that the resolve loop had found in the cache and
\* terminatePod did not find any more, without an event
C16_Witness ==
    /\ pc = "tick_done"
    /\ \E t \in Range(termLookups) :
          /\ t.pod = NoPod
          /\ \E l \in Range(lookups) : l.uid = t.uid /\ LiveUnprotected(l.pod)
          /\ \E r \in DeleteRequests : r.cand.UID = t.uid
          /\ \A r \in Range(requests) : ~(r.op = "event" /\ r.cand.UID = t.uid)

\* C17 as stated: with dry_run true the Soomkilled event is emitted for every
\* resolved candidate for which terminatePod logs that it would delete.
C17_DryRunEmitsEvents ==
    config.DryRun =>
        \A r \in Range(requests) :
            r.op = "wouldDelete" =>
                \E e \in Range(requests) : e.op = "event" /\ e.cand.UID = r.cand.UID

\* C17: with dry_run true terminatePod logs that it would delete the pod and
\* returns; it does not look the pod up, emits no event and makes no delete
\* call, and at the end of the tick there is one log line per resolved candidate.
C17_DryRunLogsOnly ==
    config.DryRun =>
        /\ \A r \in Range(requests) : r.op = "wouldDelete"
        /\ termLookups = <<>>
        /\ pc = "tick_done" =>
              /\ Len(requests) = Len(resolved)
              /\ \A i \in 1..Len(resolved) : requests[i].cand = resolved[i]

\* a dry-run tick has ended with a log line for a pod that is in the cache
C17_Witness ==
    /\ config.DryRun
    /\ pc = "tick_done"
    /\ \E r \in Range(requests) :
          /\ r.op = "wouldDelete"
          /\ GetPodByUID(cache, r.cand.UID) # NoPod

\* C18 as stated: at the end of a tick pods_killed_total has grown by the
\* number of delete requests of the tick that were answered with success.
C18_CounterCountsDeletes ==
    [][(pc = "tick_done" /\ pc' = "tick_return")
          => podsKilledTotal' = podsKilledTotal + OkDeletes]_vars

\* C19: with dry_run true pods_killed_total is 0 in every state.
C19_DryRunCounterZero == config.DryRun => podsKilledTotal = 0

\* a dry-run tick in which terminatePod returned success for two pods has
\* passed the place where the reconciler looks at killed
C19_Witness ==
    /\ config.DryRun
    /\ pc = "tick_return"
    /\ killed = 2
    /\ podsKilledTotal = 0

\* C20: every delete request carries delete options without a grace period,
\* so the orchestrator applies the pod's terminationGracePeriodSeconds.
C20_DefaultDeleteOptions ==
    \A r \in DeleteRequests :
        /\ r.options.GracePeriodSeconds = <<>>
        /\ EffectiveGracePeriod(r.options) = <<"terminationGracePeriodSeconds">>

\* the orchestrator has accepted a delete request and marked the pod
C20_Witness ==
    \E r \in DeleteRequests :
        /\ r.outcome = "ok"
        /\ apiPods[<<r.cand.Namespace, r.cand.Name>>] # NoPod
        /\ apiPods[<<r.cand.Namespace, r.cand.Name>>].DeletionTimestamp

\* C21 as stated: once the context is cancelled, Run at its select starts no
\* tick, also when a tick is waiting in ticker.C at that moment: it stays at
\* the select or returns.
C21_NoTickAfterCancel ==
    [][(cancelled /\ pc = "idle") => pc' \in {"idle", "stopped"}]_vars

\* C22 as stated: when the context is cancelled while the terminate loop of a
\* tick is under way (one delete of the tick has succeeded), the loop calls
\* terminatePod for no further candidate: no further event, no further delete call.
C22_CancelEndsTick ==
    [][(/\ cancelled
        /\ ~config.DryRun
        /\ pc = "terminate"
        /\ \E x \in Range(returns) : x.ret = "nil")
          => (requests' = requests /\ pc' # "delete")]_vars

\* C23 as stated: a delete call made before the context was cancelled returns
\* with the answer of the orchestrator, never with the error of the context.
C23_InFlightDeleteCompletes ==
    \A r \in DeleteRequests : ~r.ctxDone => r.outcome # "canceled"

\* C24: a tick is taken from ticker.C only when Run is at its select and the
\* tick before has returned: its loops are over, its counters are reset and
\* no delete call of it is under way, also when a tick arrived while it ran.
C24_TicksDoNotOverlap ==
    [][(tickerC /\ ~tickerC') => (pc = "idle" /\ TickIdle)]_vars

\* a tick that deleted a pod is about to return while the next tick is
\* waiting in ticker.C: it ran for longer than the poll interval
C24_Witness ==
    /\ pc = "tick_return"
    /\ ~config.DryRun
    /\ killed > 0
    /\ tickerC

\* C25: the reconciler keeps nothing from one tick to the next.  The
\* controller is as New built it; when Run is at its select, the candidates,
\* the counters and the calls of the last tick are gone; and at the end of a
\* tick a pod that the tick before failed to delete has been looked up if and
\* only if this tick read it above the threshold, and has a delete request if
\* and only if the lookup returned it live and unprotected, like any other pod.
C25_StatelessAcrossTicks ==
    /\ config \in Configs
    /\ protectedNamespaces = New(config)
    /\ pc = "idle" => TickIdle
    /\ (pc = "tick_done" /\ ~config.DryRun) =>
          \A uid \in lastFailed :
              /\ (\E l \in Range(lookups) : l.uid = uid) <=> OverThresholdPod(scanReads, uid)
              /\ (\E r \in DeleteRequests : r.cand.UID = uid)
                    <=> (\E l \in Range(lookups) : l.uid = uid /\ LiveUnprotected(l.pod))

\* a tick has ended after the tick before had failed to delete two pods: one
\* of them is above the threshold again and was deleted, the other is below
\* it now and was left alone
C25_Witness ==
    /\ pc = "tick_done"
    /\ ~config.DryRun
    /\ \E r \in DeleteRequests : r.cand.UID \in lastFailed /\ r.outcome = "ok"
    /\ \E uid \in lastFailed :
          /\ ~OverThresholdPod(scanReads, uid)
          /\ \A r \in Range(requests) : r.cand.UID # uid

\* C26: within one tick at most one delete call is made for a pod, by UID and
\* by namespace and name, also when that call failed: no two delete requests
\* of the tick, and no request and the call under way, are for the same pod.
C26_NoRetryWithinTick ==
    /\ \A i \in 1..Len(requests) : \A j \in 1..Len(requests) :
          (i # j /\ requests[i].op = "delete" /\ requests[j].op = "delete") =>
              /\ requests[i].cand.UID # requests[j].cand.UID
              /\ <<requests[i].cand.Namespace, requests[i].cand.Name>>
                    # <<requests[j].cand.Namespace, requests[j].cand.Name>>
    /\ inflight # NoRequest =>
          \A r \in DeleteRequests : r.cand.UID # inflight.cand.UID

\* a tick has ended in which the delete of the first of two pods failed with
\* an error of the network and the second pod was deleted; each pod has one request
C26_Witness ==
    /\ pc = "tick_done"
    /\ Len(resolved) = 2
    /\ \E r \in DeleteRequests :
          /\ r.cand = resolved[1]
          /\ r.outcome = "error"
          /\ ~r.ctxDone
    /\ \E r \in DeleteRequests : r.cand = resolved[2] /\ r.outcome = "ok"
    /\ Cardinality(DeleteRequests) = 2

\* the terminate loop of this tick has begun or is over
PastResolve == pc \in {"terminate", "delete", "delete_wait", "tick_done"}

\* C27: a candidate over the threshold whose lookup in the resolve loop
\* returned no pod is not resolved, terminatePod is not called for it, and no
\* event and no delete call names it; the loop goes on, so that after it every
\* candidate over the threshold has been looked up; and reconcile returns nil.
C27_MissingPodSkipped ==
    /\ \A l \in Range(lookups) :
          l.pod = NoPod =>
              /\ \A c \in Range(resolved) : c.UID # l.uid
              /\ \A r \in Range(requests) : r.cand.UID # l.uid
              /\ \A x \in Range(returns) : x.uid # l.uid
              /\ inflight # NoRequest => inflight.cand.UID # l.uid
    /\ PastResolve =>
          /\ Len(lookups) = Len(overThreshold)
          /\ \A i \in 1..Len(lookups) : lookups[i].uid = overThreshold[i].UID
    /\ reconcileErr \in {"none", "nil"}
    /\ pc = "tick_return" => reconcileErr = "nil"

\* a tick has ended whose first lookup returned no pod and whose second
\* candidate was deleted
C27_Witness ==
    /\ pc = "tick_done"
    /\ Len(lookups) = 2
    /\ lookups[1].pod = NoPod
    /\ OverThresholdPod(scanReads, lookups[1].uid)
    /\ \E r \in DeleteRequests : r.cand.UID = lookups[2].uid /\ r.outcome = "ok"

\* C28: no step makes Run return unless the context is cancelled, and once Run
\* has begun no step ends the process in any other way; whatever the tick met
\* (a directory it could not read, a pod not in the cache, a delete that
\* failed), the return of reconcile takes Run back to its select, where the
\* next tick starts a reconcile.
C28_OnlyCancelEndsRun ==
    [][/\ pc' = "stopped" => cancelled'
       /\ startupScans' => pc' \notin {"validate", "fatal_env", "main", "fatal", "startup"}
       /\ pc = "tick_return" => pc' \in {"tick_return", "idle"}]_vars

\* a reconcile is under way, the context is not cancelled, and the tick before
\* failed to delete a pod; the scan could not read one container directory
C28_Witness ==
    /\ pc = "resolve"
    /\ ~cancelled
    /\ lastFailed # {}
    /\ scanReads["a3"] # NoDir
    /\ ~WasRead(scanReads["a3"])

\* C29: the scan, the threshold filter and the resolve loop make no request to
\* the orchestrator: up to the first call of terminatePod the tick has made no
\* request and no delete call, and a tick that ends with nothing resolved has
\* made none at all.
C29_DetectionMakesNoApiCall ==
    /\ (pc = "resolve" \/ (pc = "terminate" /\ idx = 1)) =>
          /\ requests = <<>>
          /\ inflight = NoRequest
          /\ termLookups = <<>>
    /\ (pc = "tick_done" /\ resolved = <<>>) =>
          /\ requests = <<>>
          /\ returns = <<>>
          /\ termLookups = <<>>

\* a tick has ended that looked up two pods over the threshold and resolved none
C29_Witness ==
    /\ pc = "tick_done"
    /\ Len(lookups) = 2
    /\ resolved = <<>>
    /\ requests = <<>>
    /\ \A l \in Range(lookups) : OverThresholdPod(scanReads, l.uid)

\* C30: once main() has called ValidateEnvironment, the error it got names
\* the first of cgroup.controllers, kubepods.slice and
\* kubepods.slice/memory.swap.max that does not exist below the cgroup root,
\* and is nil only if all three exist; if one of them does not exist the process
\* gets no further than the fatal exit: the informer has filled no cache,
\* WaitForCacheSync and checkCgroupsAtStartup have not run, no tick has begun,
\* nothing was scanned and no request was made.
C30_ValidateFailsFast ==
    /\ validateErr # "none" =>
          /\ validateErr = "cgroup v2 not detected" <=>
                 CgroupControllers \notin cgroupRoot
          /\ validateErr = "systemd cgroup driver not detected" <=>
                 (CgroupControllers \in cgroupRoot /\ KubepodsSlice \notin cgroupRoot)
          /\ validateErr = "swap not enabled" <=>
                 ({CgroupControllers, KubepodsSlice} \subseteq cgroupRoot /\ SwapMax \notin cgroupRoot)
          /\ validateErr = "nil" <=> cgroupRoot = FullRoot
          /\ validateErr # "nil" => pc = "fatal_env"
    /\ cgroupRoot # FullRoot =>
          /\ pc \in {"validate", "fatal_env"}
          /\ cache = EmptyStore
          /\ ~synced
          /\ syncResult = "none"
          /\ ~startupScans
          /\ TickIdle
          /\ scanReads = NoScan
          /\ requests = <<>>
          /\ podsKilledTotal = 0

\* the process has ended at the check of the environment because only
\* memory.swap.max is missing
C30_Witness ==
    /\ pc = "fatal_env"
    /\ cgroupRoot = {CgroupControllers, KubepodsSlice}
    /\ validateErr = "swap not enabled"

\* the directory lies below a known runtime's name, by the directory table
KnownRuntime(d) == DirTable[d].runtime \in {"cri-containerd-", "crio-"}

\* the scan of this tick has run
Scanned == pc \in {"resolve", "terminate", "delete", "delete_wait", "tick_done"}

\* C31: FindPodCgroups puts every .scope directory that the walk reaches into
\* exactly one of its two lists, into Cgroups if and only if its name begins
\* with cri-containerd- or crio-; the scan calls GetContainerMetrics for no
\* directory of the other list, and every candidate has a container of a
\* known runtime that was read with swap in use.
C31_UnrecognizedNeverProcessed ==
    /\ \A d \in Dirs :
          LET res == FindPodCgroups(Walked(kubepodsDir, fs))
          IN  (kubepodsDir = "dir" /\ fs[d].kind = "dir") =>
                 /\ (PathOf(d) \in res.Cgroups) # (PathOf(d) \in res.Unrecognized)
                 /\ (PathOf(d) \in res.Cgroups) <=> KnownRuntime(d)
    /\ Scanned =>
          /\ scanLog.unrecognized =
                {PathOf(d) : d \in {x \in Dirs : scanReads[x].kind = "dir" /\ ~KnownRuntime(x)}}
          /\ \A d \in scanLog.called :
                KnownRuntime(d) /\ PathOf(d) \notin scanLog.unrecognized
          /\ \A c \in Range(candidates) :
                \E d \in scanLog.called :
                    /\ DirTable[d].uid = c.UID
                    /\ WasRead(scanReads[d])
                    /\ scanReads[d].swapCurrent.val > 0

\* a scan has found a candidate and none for the pod whose only container with
\* swap in use lies below a runtime name that is not known
C31_Witness ==
    /\ Scanned
    /\ candidates # <<>>
    /\ PathOf("x1") \in scanLog.unrecognized
    /\ scanReads["x1"].swapCurrent.val > 0
    /\ \A c \in Range(candidates) : c.UID # DirTable["x1"].uid

\* the orchestrator's UID of the pod whose slice comes first in the path; the
\* empty sequence when the path has no pod slice
PodSliceUid(path) ==
    LET hits == {i \in 1..Len(path) : path[i].uid # <<>>}
    IN  IF hits = {} THEN <<>>
        ELSE path[CHOOSE i \in hits : \A j \in hits : i <= j].uid

\* C32: ExtractPodUID returns, for a path with a pod slice ...-pod<uid>.slice,
\* the UID as the orchestrator writes it, underscores turned into dashes, and
\* the empty UID for a path without one; for the container directories of the
\* model the UID it returns finds the pod's object in the informer's store.
C32_UidIsCanonical ==
    /\ (call.fn = "ExtractPodUID" /\ call.done) => call.ret = PodSliceUid(call.path)
    /\ \A d \in Dirs : ExtractPodUID(PathOf(d)) = DirTable[d].uid
    /\ \A d \in Dirs : \A k \in PodKeys :
          DirTable[d].uid = UIDOfKey(k) =>
              GetPodByUID(InitialPods, ExtractPodUID(PathOf(d))) = InitialPods[k]

\* ExtractPodUID has returned the UID of a burstable pod whose slice name holds
\* underscores, from a path of three components
C32_Witness ==
    /\ call.fn = "ExtractPodUID"
    /\ call.done
    /\ Len(call.path) = 3
    /\ call.path[3].text = <<"kubepods", "-burstable", "-pod", "aaaa1111", "_", "2222", ".slice">>
    /\ call.ret = UidA

\* one of the four files of the directory is missing or holds what cannot be parsed
SomeFileBad(st) ==
    /\ st.kind = "dir"
    /\ \/ st.swapCurrent.kind # "int"
       \/ st.memoryCurrent.kind # "int"
       \/ st.memoryMax.kind \notin {"int", "max"}
       \/ st.memoryPressure.kind # "int"

\* C33 as stated: GetContainerMetrics returns an error for every container one
\* of whose four files cannot be read or cannot be parsed.
C33_AnyBadFileFails ==
    Scanned => \A d \in scanLog.called : SomeFileBad(scanReads[d]) => d \in scanLog.failed

\* C33: GetContainerMetrics returns an error exactly when one of the four files
\* cannot be read or one of memory.swap.current, memory.current and memory.max
\* cannot be parsed (a memory.pressure that can be read is taken as it is); the
\* scan calls it for every container of a burstable pod, a container for which
\* it failed enters no candidate, and each container of the same pod that was
\* read with swap in use still counts towards the pod's candidate.
C33_FailedContainerLeftOut ==
    Scanned =>
        /\ scanLog.called =
              {d \in Dirs : scanReads[d].kind = "dir" /\ DirTable[d].qos = "burstable"
                                /\ KnownRuntime(d)}
        /\ \A d \in scanLog.called : d \in scanLog.failed <=> ~WasRead(scanReads[d])
        /\ \A c \in Range(candidates) :
              \E d \in scanLog.called \ scanLog.failed :
                  DirTable[d].uid = c.UID /\ c.SwapPercent = ScaledRatio(scanReads[d])
        /\ \A d \in scanLog.failed : \A e \in scanLog.called \ scanLog.failed :
              (DirTable[e].uid = DirTable[d].uid /\ scanReads[e].swapCurrent.val > 0) =>
                  \E c \in Range(candidates) :
                      c.UID = DirTable[d].uid /\ c.SwapPercent >= ScaledRatio(scanReads[e])

\* a scan has failed to read one container of a pod, whose memory.max is
\* garbage, and has made the pod a candidate by its other container
C33_Witness ==
    /\ Scanned
    /\ "a2" \in scanLog.failed
    /\ scanReads["a2"].memoryMax = GarbageFile
    /\ "a1" \in scanLog.called \ scanLog.failed
    /\ \E c \in Range(candidates) :
          /\ c.UID = UidA
          /\ c.SwapPercent = ScaledRatio(scanReads["a1"])
          /\ c.SwapPercent > 0

\* memory_max of the container is zero or the value the literal max stands for
NoLimit(st) == Limit(st) = 0 \/ Limit(st) >= MemoryMaxUnlimited

\* C34 as stated: a container whose memory_max is zero or the sentinel
\* contributes ratio 0 to its pod, whatever its swap_current: a candidate all
\* of whose containers read with swap in use are without a limit has
\* swap_percent 0 and is not over the threshold.
C34_NoLimitRatioZero ==
    Scanned =>
        \A c \in Range(candidates) :
            (\A d \in Contributors(scanReads, c.UID) : NoLimit(scanReads[d])) =>
                /\ c.SwapPercent = 0
                /\ c \notin Range(overThreshold)

\* C35 as stated: FindPodCgroups returns an error whenever kubepods.slice is
\* missing or cannot be read; an error on an entry below it is swallowed, and
\* the other entries are returned all the same.
C35_RootErrorReturned ==
    Scanned =>
        /\ scanLog.findErr <=> kubepodsDir # "dir"
        /\ ~scanLog.findErr =>
              \A d \in Dirs :
                  (fs[d].kind = "dir" /\ DirTable[d].qos = "burstable" /\ KnownRuntime(d)) =>
                      d \in scanLog.called

\* the orchestrator's object of the name the delete call under way goes to
InflightTarget == apiPods[<<inflight.cand.Namespace, inflight.cand.Name>>]

\* C36: with dry_run false, when the delete call of terminatePod returns and the
\* orchestrator has no pod of the candidate's namespace and name, terminatePod
\* returns an error: the pod is not counted as killed and the orchestrator's
\* objects stay as they are.
C36_MissingPodIsError ==
    [][(pc = "delete_wait" /\ pc' # "delete_wait" /\ InflightTarget = NoPod) =>
          /\ Len(returns') = Len(returns) + 1
          /\ returns'[Len(returns')] = [uid |-> inflight.cand.UID, ret |-> "err"]
          /\ killed' = killed
          /\ apiPods' = apiPods]_vars

\* terminatePod has returned an error for a pod that was gone from the
\* orchestrator when the delete call was answered, with the context not cancelled
C36_Witness ==
    /\ ~config.DryRun
    /\ \E r \in DeleteRequests :
          /\ r.outcome = "notfound"
          /\ ~r.ctxDone
          /\ apiPods[<<r.cand.Namespace, r.cand.Name>>] = NoPod
          /\ \E x \in Range(returns) : x.uid = r.cand.UID /\ x.ret = "err"

\* C37 as stated: the pod object that a delete request removes has the UID of
\* the candidate the request was made for, also when the pod of the candidate
\* went away and a pod of the same namespace and name was created between the
\* resolve lookup and the delete call.
C37_DeletedPodHasCandidateUid ==
    [][(pc = "delete_wait" /\ pc' # "delete_wait" /\ apiPods' # apiPods) =>
          (InflightTarget # NoPod /\ InflightTarget.UID = inflight.cand.UID)]_vars

\* C38 as stated: once a delete request for a pod has succeeded, no later tick
\* makes a delete request or emits a Soomkilled event for that pod, also while
\* its cgroup is above the threshold and the cache has not yet got the update
\* that sets the deletion timestamp.
C38_NoSecondDelete ==
    \A r \in Range(requests) :
        r.op \in {"delete", "event"} => r.cand.UID \notin deletedBefore

\* the Soomkilled events of this tick, by their place among the requests
EventIndexes == {i \in 1..Len(requests) : requests[i].op = "event"}

\* C39: with dry_run false, every Soomkilled event of a tick is followed by a
\* delete call for the same pod: the call has returned later in the tick, or it
\* is the call in flight, or terminatePod stands right before it; and every
\* event is for a pod with a container above the threshold in the scan of the
\* tick, whose lookup in the resolve loop returned a record that was not
\* terminating and not in a protected namespace.
C39_EventThenDelete ==
    ~config.DryRun =>
        \A i \in EventIndexes :
            /\ \/ \E j \in (i + 1)..Len(requests) :
                      /\ requests[j].op = "delete"
                      /\ requests[j].cand = requests[i].cand
               \/ /\ i = Len(requests)
                  /\ pc = "delete_wait"
                  /\ inflight.op = "delete"
                  /\ inflight.cand = requests[i].cand
               \/ /\ i = Len(requests)
                  /\ pc = "delete"
                  /\ resolved[idx] = requests[i].cand
            /\ OverThresholdPod(scanReads, requests[i].cand.UID)
            /\ \E l \in Range(lookups) :
                  /\ l.uid = requests[i].cand.UID
                  /\ LiveUnprotected(l.pod)

\* a tick has ended with one event and its delete, in which the resolve loop
\* looked up a second pod above the threshold whose record was not there, was
\* terminating or was in a protected namespace
C39_Witness ==
    /\ ~config.DryRun
    /\ pc = "tick_done"
    /\ Cardinality(EventIndexes) = 1
    /\ \E i \in EventIndexes : \E j \in (i + 1)..Len(requests) :
          requests[j].op = "delete" /\ requests[j].cand = requests[i].cand
    /\ \E l \in Range(lookups) :
          /\ ~LiveUnprotected(l.pod)
          /\ OverThresholdPod(scanReads, l.uid)
          /\ \A r \in Range(requests) : r.cand.UID # l.uid

\* the values of DRY_RUN that ask for dry_run false: those strconv.ParseBool
\* reads as false, and "no"
FalseValues == ParseBoolFalse \cup {"no"}

\* C40 as stated: when --dry-run is not on the command line, Config.DryRun is
\* false after flag.Parse only if DRY_RUN is set to a false value; with DRY_RUN
\* unset, empty or set to anything else it is true.
C40_DryRunLeftOnlyOnRequest ==
    (call.fn = "flag.Parse" /\ call.done /\ call.flag = "absent") =>
        /\ config.DryRun = call.ret
        /\ ~config.DryRun => (call.env.set /\ call.env.val \in FalseValues)

=============================================================================
